---- MODULE Spec2Model ----
(***************************************************************************)
(* State-machine model of the BME680 driver in src/bme680.py: the class    *)
(* Adafruit_BME680 (construction/detection, calibration load, the          *)
(* oversampling and filter properties, the throttled forced-mode           *)
(* acquisition of _perform_reading, the pressure plausibility cache) and   *)
(* the failure behaviour of the I2C and SPI backends' _read and _write.    *)
(*                                                                         *)
(* Representation:                                                         *)
(*  - time is in milliseconds; time.ticks_ms() is the variable ticks, a    *)
(*    counter that wraps at TicksPeriod; time.ticks_diff is TicksDiff.     *)
(*  - pressures are fixed-point, in hundredths of a hectopascal, so that   *)
(*    the code's division by 100 is exact on the inputs chosen.            *)
(*  - the floating-point compensation polynomials (lines 201-217, 236-249, *)
(*    270-273, 340-345) are not evaluated: the value of the pressure       *)
(*    polynomial before the plausibility steps of lines 218-228 is what a  *)
(*    device sample is identified by (Samples), and t_fine is the sample   *)
(*    it was computed from.                                                *)
(*  - an attribute the constructor never assigned is Unset.                *)
(*  - the calibration lists and _heat_range, _heat_val, _sw_err are not    *)
(*    variables: they are assigned once and read only by the polynomials.  *)
(*    What the model keeps of _read_calibration is its transport calls     *)
(*    and where it raises.                                                 *)
(*  - op, arg, ret, bus, polls and slept describe the call that is running *)
(*    or has just returned; elapsed is the real time behind last_reading.  *)
(***************************************************************************)
EXTENDS Integers, Sequences, FiniteSets, TLC

\* ------------------------------------------------------------------ bounds
\* time.ticks_ms() wraps at this period (2^30 on the usual ports; scaled).
TicksPeriod == 4
\* The real time since the last completion timestamp is tracked up to here.
MaxElapsed == 6
\* Status reads of one polling loop that are logged and counted, at most.
MaxPolls == 2
\* Transport operations that may fail within one call of the driver, at most.
MaxFailures == 1

\* --------------------------------------------------------- program constants
BME680_CHIPID == 97
BME680_REG_CHIPID == 208
BME680_BME680_COEFF_ADDR1 == 137
BME680_BME680_COEFF_ADDR2 == 225
BME680_BME680_RES_HEAT_0 == 90
BME680_BME680_GAS_WAIT_0 == 100
BME680_REG_SOFTRESET == 224
BME680_REG_CTRL_GAS == 113
BME680_REG_CTRL_HUM == 114
BME680_REG_CTRL_MEAS == 116
BME680_REG_CONFIG == 117
BME680_REG_MEAS_STATUS == 29
BME680_RUNGAS == 16
BME680_SAMPLERATES == <<0, 1, 2, 4, 8, 16>>
BME680_FILTERSIZES == <<0, 1, 3, 7, 15, 31, 63, 127>>

\* An attribute that was never assigned (reading it raises AttributeError).
Unset == -1
\* time.sleep(0.005), in milliseconds
SettleMs == 5
\* 1013.25 hPa and the thresholds 1500 and 630 hPa, in hundredths of a hPa
DefaultSeaLevel == 101325
RescaleAbove == 150000
ValidAbove == 63000
\* the bytes written at reset and to the two heater registers
SoftResetCmd == 182
ResHeatCode == 115
GasWaitCode == 101
\* the default selectors of lines 115-118
DefaultPressureOversample == 3
DefaultTempOversample == 4
DefaultHumidityOversample == 2
DefaultFilter == 2

\* --------------------------------------------------------------- input sets
\* refresh_rate arguments: 1000 // 500 = 2 ms, 1000 // 1000 = 1 ms
RefreshRates == {500, 1000}
\* what the chip-id register may read as
ChipIds == {97, 0}
\* arguments of the three oversample setters (3 is not a sample rate)
OversampleInputs == {3, 8, 16}
\* arguments of the filter_size setter (2 is not a filter size)
FilterInputs == {2, 3, 7, 15}
\* values of the pressure polynomial for the samples the device may deliver:
\* 50 hPa, 630 hPa, 700 hPa, 70500 (rescaled to 705 hPa)
Samples == {63000, 70000, 7050000}
\* what the device may answer to the read of the measurement-control register,
\* besides the value just written to it
CtrlReadValues == {143}

Accessors == {"temperature", "pressure", "humidity", "gas", "altitude"}

VARIABLES
  pc,                  \* "new": not constructed; "idle": constructed, no call
                       \* running; "poll": in the loop of _perform_reading;
                       \* "dead": the constructor raised
  ticks,               \* time.ticks_ms()
  detected,            \* self._detected
  pressure_oversample, \* self._pressure_oversample (an index)
  temp_oversample,     \* self._temp_oversample (an index)
  humidity_oversample, \* self._humidity_oversample (an index)
  filter,              \* self._filter
  sea_level_pressure,  \* self.sea_level_pressure
  last_pres,           \* self._last_pres
  adc,                 \* self._adc_pres, _adc_temp, _adc_hum, _adc_gas, _gas_range
  t_fine,              \* self._t_fine
  last_reading,        \* self._last_reading
  min_refresh_time,    \* self._min_refresh_time
  op,                  \* the call made last (or running)
  arg,                 \* its argument
  ret,                 \* <<kind, value>>: what it returned or raised
  bus,                 \* the transport calls it made, in order
  polls,               \* status reads of the running polling loop
  elapsed,             \* real ms since last_reading was assigned
  slept                \* how long the accessor slept before its trigger (until it polls)
                       \* before its trigger

vars == <<pc, ticks, detected, pressure_oversample, temp_oversample,
          humidity_oversample, filter, sea_level_pressure, last_pres, adc,
          t_fine, last_reading, min_refresh_time, op, arg, ret, bus, polls,
          elapsed, slept>>

config == <<pressure_oversample, temp_oversample, humidity_oversample, filter>>
cache == <<last_pres, adc, t_fine, last_reading>>
session == <<detected, sea_level_pressure, min_refresh_time>>
observed == <<op, arg, ret, bus, polls, slept>>

\* ------------------------------------------------------------------ helpers
Min(a, b) == IF a < b THEN a ELSE b

\* t[i] of a Python tuple (indices from 0)
TupleGet(t, i) == t[i + 1]
\* v in t
InTuple(t, v) == \E i \in 1..Len(t) : t[i] = v
\* t.index(v), for v in t
TupleIndex(t, v) == (CHOOSE i \in 1..Len(t) : t[i] = v /\ \A j \in 1..(i - 1) : t[j] # v) - 1
\* whether t[i] raises IndexError (i >= 0 here: no negative index arises)
OutOfRange(t, i) == i < 0 \/ i >= Len(t)

\* time.ticks_diff(a, b): a - b, wrapped into [-TicksPeriod/2, TicksPeriod/2)
TicksDiff(a, b) == ((a - b + TicksPeriod \div 2) % TicksPeriod) - TicksPeriod \div 2
\* time.ticks_ms() after d more milliseconds
TicksAfter(d) == (ticks + d) % TicksPeriod
ElapsedAfter(e, d) == Min(e + d, MaxElapsed)

\* One transport call as the core makes it: <<kind, register, value, ok, data>>.
\* A write carries the byte sent (value & 0xFF); a read carries the length
\* asked for and, when it succeeds, the first byte the device returned.
W(reg, val, ok) == <<"w", reg, val % 256, ok, 0>>
R(reg, len, ok, data) == <<"r", reg, len, ok, IF ok THEN data ELSE 0>>
\* the sets of failing call numbers allowed among the call numbers S
RECURSIVE FailureSetsOf(_, _)
FailureSetsOf(S, k) ==
  IF k = 0 THEN {{}}
  ELSE LET smaller == FailureSetsOf(S, k - 1)
       IN smaller \cup {F \cup {i} : F \in smaller, i \in S}
FailureSets(S) == FailureSetsOf(S, MaxFailures)
\* the first n entries of b
Prefix(b, n) == SubSeq(b, 1, n)
\* the least element of a non-empty set of numbers
Least(S) == CHOOSE x \in S : \A y \in S : x <= y

\* BME680_I2C._read with debug on: the print of line 409 iterates over the
\* result, which is None after a failed read, and raises TypeError. The SPI
\* backend prints inside its try block, before the result can be None.
ReadRaises(backend, debug) == backend = "I2C" /\ debug

\* ------------------------------------------------------------ construction
\* The transport calls of __init__ in order, call i failing when i is in F:
\* _is_detected (1-2), _read_calibration (3-7), the heater set-up (8-9).
ConstructOps(F, id) ==
  << W(BME680_REG_SOFTRESET, SoftResetCmd, 1 \notin F),
     R(BME680_REG_CHIPID, 1, 2 \notin F, id),
     R(BME680_BME680_COEFF_ADDR1, 25, 3 \notin F, 0),
     R(BME680_BME680_COEFF_ADDR2, 16, 4 \notin F, 0),
     R(2, 1, 5 \notin F, 0),
     R(0, 1, 6 \notin F, 0),
     R(4, 1, 7 \notin F, 0),
     W(BME680_BME680_RES_HEAT_0, ResHeatCode, 8 \notin F),
     W(BME680_BME680_GAS_WAIT_0, GasWaitCode, 9 \notin F) >>

\* The failed reads of _read_calibration that raise TypeError: None + bytes or
\* bytes + None (350-351), None & 0x30 (366), None & 0xF0 (368). The read of
\* line 367 is stored as it is, and raises only inside a debugging _read.
CalibrationRaisers(F, readRaises) ==
  {i \in F \cap (3..7) : i # 6 \/ readRaises}

\* _is_detected: whether the session is detected (chip id read and equal)
IsDetected(F, id) == 2 \notin F /\ id = BME680_CHIPID

\* 1000 // refresh_rate
MinRefreshTime(refresh_rate) == 1000 \div refresh_rate

\* BME680_I2C(...) or BME680_SPI(...): __init__ as a whole
Construct(refresh_rate, backend, debug, id, F) ==
  LET ops == ConstructOps(F, id)
      readRaises == ReadRaises(backend, debug)
      raisers == CalibrationRaisers(F, readRaises)
  IN
  /\ pc = "new"
  /\ op' = "init" /\ arg' = refresh_rate
  /\ ticks' = TicksAfter(SettleMs)
  /\ elapsed' = 0
  /\ UNCHANGED <<polls, slept>>
  /\ IF 2 \in F /\ readRaises
     THEN \* the chip-id read raises inside _read
       /\ pc' = "dead" /\ ret' = <<"TypeError", 0>>
       /\ bus' = Prefix(ops, 2)
       /\ UNCHANGED <<detected, config, cache, sea_level_pressure,
                      min_refresh_time>>
     ELSE IF ~IsDetected(F, id)
     THEN \* lines 291-297 and 130-132
       /\ pc' = "idle" /\ ret' = <<"None", 0>>
       /\ detected' = FALSE
       /\ bus' = Prefix(ops, 2)
       /\ UNCHANGED <<config, cache, sea_level_pressure, min_refresh_time>>
     ELSE IF raisers # {}
     THEN \* _read_calibration raises: no object is returned
       /\ pc' = "dead" /\ ret' = <<"TypeError", 0>>
       /\ detected' = TRUE
       /\ bus' = Prefix(ops, Least(raisers))
       /\ UNCHANGED <<config, cache, sea_level_pressure, min_refresh_time>>
     ELSE \* lines 105-129
       /\ pc' = "idle" /\ ret' = <<"None", 0>>
       /\ detected' = TRUE
       /\ bus' = ops
       /\ sea_level_pressure' = DefaultSeaLevel
       /\ pressure_oversample' = DefaultPressureOversample
       /\ temp_oversample' = DefaultTempOversample
       /\ humidity_oversample' = DefaultHumidityOversample
       /\ filter' = DefaultFilter
       /\ last_pres' = 0
       /\ adc' = Unset /\ t_fine' = Unset
       /\ last_reading' = TicksAfter(SettleMs)
       /\ min_refresh_time' = MinRefreshTime(refresh_rate)

Init ==
  /\ pc = "new"
  /\ ticks \in 0..(TicksPeriod - 1)
  /\ detected = FALSE
  /\ pressure_oversample = Unset /\ temp_oversample = Unset
  /\ humidity_oversample = Unset /\ filter = Unset
  /\ sea_level_pressure = Unset
  /\ last_pres = Unset /\ adc = Unset /\ t_fine = Unset
  /\ last_reading = Unset /\ min_refresh_time = Unset
  /\ op = "none" /\ arg = 0 /\ ret = <<"None", 0>>
  /\ bus = <<>> /\ polls = 0
  /\ elapsed = 0 /\ slept = 0

\* ------------------------------------------------- oversampling and filter
\* (an oversample setter that stores the sample rate, not its index)
OversampleSelectorAsValue(sample_rate) == sample_rate

\* what an oversample setter stores: _BME680_SAMPLERATES.index(sample_rate)
OversampleSelector(sample_rate) == TupleIndex(BME680_SAMPLERATES, sample_rate)

\* what the filter_size setter stores: _BME680_FILTERSIZES[size]
FilterSelector(size) == TupleGet(BME680_FILTERSIZES, size)

\* a getter: table[selector]
GetterResult(table, selector) ==
  IF selector = Unset THEN <<"AttributeError", 0>>
  ELSE IF OutOfRange(table, selector) THEN <<"IndexError", 0>>
  ELSE <<"value", TupleGet(table, selector)>>

\* the parts of every property call that makes no acquisition
PropertyCall(name, a) ==
  /\ pc = "idle"
  /\ op' = name /\ arg' = a
  /\ bus' = <<>>
  /\ UNCHANGED <<pc, ticks, cache, session, polls, elapsed, slept>>

SetPressureOversample(sample_rate) ==
  /\ PropertyCall("set_pressure_oversample", sample_rate)
  /\ IF InTuple(BME680_SAMPLERATES, sample_rate)
     THEN /\ pressure_oversample' = OversampleSelector(sample_rate)
          /\ ret' = <<"None", 0>>
     ELSE /\ UNCHANGED pressure_oversample
          /\ ret' = <<"RuntimeError", 0>>
  /\ UNCHANGED <<temp_oversample, humidity_oversample, filter>>

SetHumidityOversample(sample_rate) ==
  /\ PropertyCall("set_humidity_oversample", sample_rate)
  /\ IF InTuple(BME680_SAMPLERATES, sample_rate)
     THEN /\ humidity_oversample' = OversampleSelector(sample_rate)
          /\ ret' = <<"None", 0>>
     ELSE /\ UNCHANGED humidity_oversample
          /\ ret' = <<"RuntimeError", 0>>
  /\ UNCHANGED <<pressure_oversample, temp_oversample, filter>>

SetTemperatureOversample(sample_rate) ==
  /\ PropertyCall("set_temperature_oversample", sample_rate)
  /\ IF InTuple(BME680_SAMPLERATES, sample_rate)
     THEN /\ temp_oversample' = OversampleSelector(sample_rate)
          /\ ret' = <<"None", 0>>
     ELSE /\ UNCHANGED temp_oversample
          /\ ret' = <<"RuntimeError", 0>>
  /\ UNCHANGED <<pressure_oversample, humidity_oversample, filter>>

SetFilterSize(size) ==
  /\ PropertyCall("set_filter_size", size)
  /\ IF ~InTuple(BME680_FILTERSIZES, size)
     THEN /\ UNCHANGED filter
          /\ ret' = <<"RuntimeError", 0>>
     ELSE IF OutOfRange(BME680_FILTERSIZES, size)
     THEN /\ UNCHANGED filter
          /\ ret' = <<"IndexError", 0>>
     ELSE /\ filter' = FilterSelector(size)
          /\ ret' = <<"None", 0>>
  /\ UNCHANGED <<pressure_oversample, temp_oversample, humidity_oversample>>

GetPressureOversample ==
  /\ PropertyCall("pressure_oversample", 0)
  /\ ret' = GetterResult(BME680_SAMPLERATES, pressure_oversample)
  /\ UNCHANGED config

GetHumidityOversample ==
  /\ PropertyCall("humidity_oversample", 0)
  /\ ret' = GetterResult(BME680_SAMPLERATES, humidity_oversample)
  /\ UNCHANGED config

GetTemperatureOversample ==
  /\ PropertyCall("temperature_oversample", 0)
  /\ ret' = GetterResult(BME680_SAMPLERATES, temp_oversample)
  /\ UNCHANGED config

GetFilterSize ==
  /\ PropertyCall("filter_size", 0)
  /\ ret' = GetterResult(BME680_FILTERSIZES, filter)
  /\ UNCHANGED config

GetDetected ==
  /\ PropertyCall("detected", 0)
  /\ ret' = <<"value", IF detected THEN 1 ELSE 0>>
  /\ UNCHANGED config

\* -------------------------------------------------------------- acquisition
\* a & b and a | b on non-negative integers
RECURSIVE BitAnd(_, _)
BitAnd(a, b) ==
  IF a = 0 \/ b = 0 THEN 0
  ELSE 2 * BitAnd(a \div 2, b \div 2) + (IF a % 2 = 1 /\ b % 2 = 1 THEN 1 ELSE 0)
RECURSIVE BitOr(_, _)
BitOr(a, b) ==
  IF a = 0 THEN b ELSE IF b = 0 THEN a
  ELSE 2 * BitOr(a \div 2, b \div 2) + (IF a % 2 = 1 \/ b % 2 = 1 THEN 1 ELSE 0)

\* line 310: the time since the last reading, from the wrapped tick counter
Expired == TicksDiff(last_reading, ticks) * TicksDiff(0, 1)

\* (a throttle that lets a caller through who arrives in the very millisecond
\* of the last reading)
ThrottleDelayAfterFirstMs(expired, min_refresh) ==
  IF 0 < expired /\ expired < min_refresh THEN min_refresh - expired ELSE 0

\* lines 311-312: how long the caller is put to sleep before the trigger
ThrottleDelay(expired, min_refresh) ==
  IF 0 <= expired /\ expired < min_refresh THEN min_refresh - expired ELSE 0

\* (a single-shot byte that sets bit 0 and leaves bit 1 as it was read)
ForcedModeNoClear(ctrl) == BitOr(ctrl, 1)

\* (the two oversample fields of the control byte in each other's place)
CtrlMeasByteSwapped(t, p) == BitOr(p * 32, t * 4)

\* the bytes of lines 315, 318 and 325
ConfigByte(f) == f * 4
CtrlMeasByte(t, p) == BitOr(t * 32, p * 4)
ForcedMode(ctrl) == BitOr(BitAnd(ctrl, 252), 1)

\* The transport calls of lines 315-326 in order, call i failing when i is in
\* F; ctrl is what the device answers to the read of the control register.
TriggerOps(F, ctrl) ==
  << W(BME680_REG_CONFIG, ConfigByte(filter), 1 \notin F),
     W(BME680_REG_CTRL_MEAS, CtrlMeasByte(temp_oversample, pressure_oversample),
       2 \notin F),
     W(BME680_REG_CTRL_HUM, humidity_oversample, 3 \notin F),
     W(BME680_REG_CTRL_GAS, BME680_RUNGAS, 4 \notin F),
     R(BME680_REG_CTRL_MEAS, 1, 5 \notin F, ctrl),
     W(BME680_REG_CTRL_MEAS, ForcedMode(ctrl), 6 \notin F) >>

\* what the device may answer to the read of the control register
CtrlAnswers ==
  {CtrlMeasByte(temp_oversample, pressure_oversample) % 256} \cup CtrlReadValues

\* (a plausibility test that accepts 630 hPa itself)
LooksValidFrom(calc_pres) == calc_pres >= ValidAbove

\* lines 218-219
Rescaled(calc_pres) ==
  IF calc_pres > RescaleAbove THEN calc_pres \div 100 ELSE calc_pres
\* line 220
LooksValid(calc_pres) == calc_pres > ValidAbove
\* lines 218-228: what pressure returns, and what it leaves in _last_pres
PressureValue(calc_pres, last) ==
  IF LooksValid(Rescaled(calc_pres)) THEN Rescaled(calc_pres)
  ELSE IF last > 0 THEN last
  ELSE Rescaled(calc_pres)
PressureCache(calc_pres, last) ==
  IF LooksValid(Rescaled(calc_pres)) THEN Rescaled(calc_pres) ELSE last

\* An accessor called on a session that is not detected: _perform_reading
\* returns None at once. altitude goes on to divide None by the attribute
\* sea_level_pressure, which such a session does not have (lines 261-262).
AbsentResult(a) ==
  IF a = "altitude"
  THEN IF sea_level_pressure = Unset THEN <<"AttributeError", 0>>
       ELSE <<"TypeError", 0>>
  ELSE <<"None", 0>>

\* An accessor, from its call to the first status read: the throttle and the
\* trigger of _perform_reading (lines 306-327).
Call(a, F, ctrl) ==
  /\ pc = "idle"
  /\ op' = a /\ arg' = 0
  /\ UNCHANGED <<config, cache, session>>
  /\ IF ~detected
     THEN /\ ret' = AbsentResult(a)
          /\ bus' = <<>>
          /\ UNCHANGED <<pc, ticks, polls, elapsed, slept>>
     ELSE LET delay == ThrottleDelay(Expired, min_refresh_time)
              ops == TriggerOps(F, ctrl)
          IN
          /\ ticks' = TicksAfter(delay)
          /\ elapsed' = ElapsedAfter(elapsed, delay)
          /\ slept' = delay
          /\ polls' = 0
          /\ IF 5 \in F
             THEN \* ctrl is None: None & 0xFC raises
                  /\ pc' = "idle" /\ ret' = <<"TypeError", 0>>
                  /\ bus' = Prefix(ops, 5)
             ELSE /\ pc' = "poll" /\ ret' = <<"pending", 0>>
                  /\ bus' = ops

\* what the accessor returns once _perform_reading has returned True
Reading(a, sample) ==
  IF a \in {"pressure", "altitude"}
  THEN <<"value", PressureValue(sample, last_pres)>>
  ELSE <<"value", sample>>

NumFailed(b) == Cardinality({i \in 1..Len(b) : ~b[i][4]})

\* One round of the loop of lines 328-331, and, when it ends the loop, the
\* rest of the accessor (lines 332-346 and the accessor's own computation).
Poll(ok, new_data, sample) ==
  /\ pc = "poll"
  /\ ok \/ NumFailed(bus) < MaxFailures
  /\ bus' = IF polls < MaxPolls \/ ~ok \/ new_data
            THEN Append(bus, R(BME680_REG_MEAS_STATUS, 15, ok,
                               IF new_data THEN 128 ELSE 0))
            ELSE bus
  /\ polls' = Min(polls + 1, MaxPolls)
  /\ slept' = 0
  /\ UNCHANGED <<op, arg, config, session>>
  /\ IF ~ok
     THEN \* data is None: data[0] raises
          /\ pc' = "idle" /\ ret' = <<"TypeError", 0>>
          /\ UNCHANGED <<ticks, elapsed, cache>>
     ELSE IF ~new_data
     THEN /\ ticks' = TicksAfter(SettleMs)
          /\ elapsed' = ElapsedAfter(elapsed, SettleMs)
          /\ UNCHANGED <<pc, ret, cache>>
     ELSE /\ ticks' = TicksAfter(SettleMs)
          /\ last_reading' = TicksAfter(SettleMs)
          /\ elapsed' = 0
          /\ adc' = sample /\ t_fine' = sample
          /\ last_pres' = IF op \in {"pressure", "altitude"}
                          THEN PressureCache(sample, last_pres) ELSE last_pres
          /\ ret' = Reading(op, sample)
          /\ pc' = "idle"

\* time passing between two calls
Tick ==
  /\ pc = "idle"
  /\ ticks' = TicksAfter(1)
  /\ elapsed' = ElapsedAfter(elapsed, 1)
  /\ op' = "tick" /\ arg' = 0 /\ ret' = <<"None", 0>>
  /\ bus' = <<>> /\ polls' = 0 /\ slept' = 0
  /\ UNCHANGED <<pc, config, cache, session>>

\* the transport calls of the constructor, and those of the trigger that
\* the environment lets fail (a write, whose result the core never looks at,
\* and the read)
ConstructCalls == 1..9
TriggerFailPoints == {1, 5}

Acquire ==
  \/ \E a \in Accessors, F \in FailureSets(TriggerFailPoints) :
       \E ctrl \in (IF pc = "idle" /\ detected THEN CtrlAnswers ELSE {0}) :
         Call(a, F, ctrl)
  \/ \E ok \in BOOLEAN, new_data \in BOOLEAN, sample \in Samples :
       Poll(ok, new_data, sample)

\* Sessions on an unreliable transport, calls at any time; the configuration
\* stays as the constructor left it.
Next ==
  \/ \E rate \in RefreshRates, backend \in {"I2C", "SPI"}, debug \in BOOLEAN,
        id \in ChipIds, F \in FailureSets(ConstructCalls) :
       Construct(rate, backend, debug, id, F)
  \/ Acquire
  \/ Tick

Spec == Init /\ [][Next]_vars

\* The interpreter goes on running the code of a call that has begun.
FairSpec == Spec /\ WF_vars(Acquire)

\* Sessions on a reliable transport after construction, with calls following
\* one another at once; the caller changes and reads the configuration.
Configure ==
  \/ \E v \in OversampleInputs : SetPressureOversample(v)
  \/ \E v \in OversampleInputs : SetHumidityOversample(v)
  \/ \E v \in OversampleInputs : SetTemperatureOversample(v)
  \/ \E v \in FilterInputs : SetFilterSize(v)
  \/ GetPressureOversample
  \/ GetHumidityOversample
  \/ GetTemperatureOversample
  \/ GetFilterSize
  \/ GetDetected

AcquireReliably ==
  \/ \E a \in Accessors :
       \E ctrl \in (IF pc = "idle" /\ detected
                    THEN {CtrlMeasByte(temp_oversample, pressure_oversample) % 256}
                    ELSE {0}) :
         Call(a, {}, ctrl)
  \/ \E new_data \in BOOLEAN : Poll(TRUE, new_data, 70000)

ConfigNext ==
  \/ \E rate \in RefreshRates, backend \in {"I2C", "SPI"}, debug \in BOOLEAN,
        id \in ChipIds, F \in FailureSets(ConstructCalls) :
       Construct(rate, backend, debug, id, F)
  \/ Configure
  \/ AcquireReliably

ConfigSpec == Init /\ [][ConfigNext]_vars

\* ------------------------------------------------------------------ claims
\* the second call of the constructor's log, the chip-id read, failed
ChipIdReadFailed == op = "init" /\ Len(bus) >= 2 /\ ~bus[2][4]
\* it succeeded and read as another chip's id
ChipIdMismatch ==
  op = "init" /\ Len(bus) >= 2 /\ bus[2][4] /\ bus[2][5] # BME680_CHIPID

\* C1: when detection fails (the chip-id read fails or reads as another value
\* than 0x61) the constructor returns a session with detected false, and on
\* such a session each of temperature, pressure, humidity, gas and altitude
\* returns None, without raising and without any transport call.
C1_AbsentWhenNotDetected ==
  /\ (pc = "idle" /\ (ChipIdReadFailed \/ ChipIdMismatch)) => ~detected
  /\ (pc = "idle" /\ ~detected /\ op \in Accessors) =>
       (ret = <<"None", 0>> /\ bus = <<>>)

\* the state in which an accessor of a detected session has just made its
\* trigger writes (elapsed is then the time from the last completion
\* timestamp to the first of them)
JustTriggered ==
  op \in Accessors /\ detected /\ pc # "new" /\ bus # <<>> /\ polls = 0
\* ... having been called less than the minimum refresh interval after the
\* last completion timestamp
CalledEarly == JustTriggered /\ elapsed - slept < min_refresh_time

\* C2: an accessor called within the minimum refresh interval of the previous
\* acquisition's completion starts no acquisition (it makes no transport
\* call) and is served from the previous reading.
C2_CachedReadWithinInterval ==
  (op \in Accessors /\ detected /\ pc # "new" /\ polls = 0 /\ adc # Unset
     /\ elapsed - slept < min_refresh_time)
  => (bus = <<>> /\ pc = "idle" /\ ret[1] = "value")

C4_FilterRoundTrip ==
  [][op' = "set_filter_size" =>
       IF InTuple(BME680_FILTERSIZES, arg')
       THEN /\ ret' = <<"None", 0>>
            /\ filter' \in 0..(Len(BME680_FILTERSIZES) - 1)
            /\ BME680_FILTERSIZES[filter' + 1] = arg'
       ELSE ret' = <<"RuntimeError", 0>> /\ filter' = filter]_vars

\* what an oversample setter that was handed v must leave behind: own is the
\* selector it sets, rest the other three settings
SetterContract(v, result, ownBefore, ownAfter, restBefore, restAfter) ==
  /\ restAfter = restBefore
  /\ IF v \in {0, 1, 2, 4, 8, 16}
     THEN /\ result = <<"None", 0>>
          /\ ownAfter \in 0..5
          /\ BME680_SAMPLERATES[ownAfter + 1] = v
     ELSE result = <<"RuntimeError", 0>> /\ ownAfter = ownBefore

\* C5: each of the three oversample setters raises the configuration error
\* for a value outside {0,1,2,4,8,16} and leaves all four settings as they
\* were; for a value of the set it returns, its getter then reads as that
\* value, and the other two oversample settings and the filter are unchanged.
C5_OversampleSetters ==
  [][/\ op' = "set_pressure_oversample" =>
          SetterContract(arg', ret', pressure_oversample, pressure_oversample',
                         <<temp_oversample, humidity_oversample, filter>>,
                         <<temp_oversample', humidity_oversample', filter'>>)
     /\ op' = "set_temperature_oversample" =>
          SetterContract(arg', ret', temp_oversample, temp_oversample',
                         <<pressure_oversample, humidity_oversample, filter>>,
                         <<pressure_oversample', humidity_oversample', filter'>>)
     /\ op' = "set_humidity_oversample" =>
          SetterContract(arg', ret', humidity_oversample, humidity_oversample',
                         <<pressure_oversample, temp_oversample, filter>>,
                         <<pressure_oversample', temp_oversample', filter'>>)
    ]_vars

\* 8 was accepted for humidity on a detected session whose setting was 2
C5_Witness ==
  /\ op = "set_humidity_oversample" /\ arg = 8 /\ ret = <<"None", 0>>
  /\ detected /\ humidity_oversample = 4
  /\ pressure_oversample = DefaultPressureOversample

\* C10: right after the construction of a detected session the getters read
\* temperature oversample 8, pressure oversample 4, humidity oversample 2 and
\* filter size 3, and sea_level_pressure is 1013.25; an acquisition made then
\* writes 2 << 2 to the filter register, (4 << 5) | (3 << 2) to the
\* measurement-control register and 2 to the humidity-control register.
C10_Defaults ==
  [][(op = "init" /\ pc = "idle" /\ detected) =>
       /\ GetterResult(BME680_SAMPLERATES, temp_oversample) = <<"value", 8>>
       /\ GetterResult(BME680_SAMPLERATES, pressure_oversample) = <<"value", 4>>
       /\ GetterResult(BME680_SAMPLERATES, humidity_oversample) = <<"value", 2>>
       /\ GetterResult(BME680_FILTERSIZES, filter) = <<"value", 3>>
       /\ sea_level_pressure = 101325
       /\ op' \in Accessors =>
            /\ Len(bus') >= 3
            /\ bus'[1] = <<"w", 117, 8, TRUE, 0>>
            /\ bus'[2] = <<"w", 116, 140, TRUE, 0>>
            /\ bus'[3] = <<"w", 114, 2, TRUE, 0>>
    ]_vars

\* the first acquisition of a session, with the configuration never touched
C10_Witness ==
  /\ op \in Accessors /\ detected /\ pc = "poll" /\ polls = 0 /\ adc = Unset
  /\ config = <<DefaultPressureOversample, DefaultTempOversample,
                DefaultHumidityOversample, DefaultFilter>>
  /\ bus[2] = <<"w", 116, 140, TRUE, 0>>

\* a computed pressure after the rescale of the claim: divided by 100 when it
\* is above 1500 hPa
AfterRescale(p) == IF p > 150000 THEN p \div 100 ELSE p

\* C6: on a detected session, over any sequence of reads, the last-good cache changes only when a
\* pressure read computes a value that, after the rescale, exceeds 630 hPa,
\* and then becomes that value, which is returned; when the value is at or
\* below 630 hPa the read returns the cached value if there is one and the
\* computed value if there is none. The cache is 0 or above 630 hPa and is
\* never cleared.
C6_PressurePlausibility ==
  [][(detected' /\ pc' \in {"idle", "poll"}) =>
       /\ last_pres' = 0 \/ last_pres' > 63000
       /\ last_pres > 0 => last_pres' > 0
       /\ (pc # "new" /\ last_pres' # last_pres) =>
            /\ pc = "poll" /\ pc' = "idle"
            /\ op' \in {"pressure", "altitude"}
            /\ AfterRescale(adc') > 63000
            /\ last_pres' = AfterRescale(adc')
       /\ (pc = "poll" /\ pc' = "idle" /\ op' = "pressure"
             /\ ret'[1] = "value") =>
            IF AfterRescale(adc') > 63000
            THEN /\ last_pres' = AfterRescale(adc')
                 /\ ret'[2] = AfterRescale(adc')
            ELSE /\ last_pres' = last_pres
                 /\ ret'[2] = IF last_pres > 0 THEN last_pres
                              ELSE AfterRescale(adc')
    ]_vars

\* 700 hPa was cached and a read that computed 50 hPa returned 700
C6_Witness ==
  /\ op = "pressure" /\ pc = "idle" /\ adc = 63000
  /\ last_pres = 70000 /\ ret = <<"value", 70000>>

\* C7: when a transport call fails during the acquisition of an accessor on
\* a detected session, the accessor returns None, without raising, and
\* leaves the cached state and the configuration as they were.
C7_AbsentOnTransportFailure ==
  [][(op' \in Accessors /\ detected /\ pc # "new" /\ pc' = "idle"
        /\ NumFailed(bus') > 0) =>
       (ret' = <<"None", 0>> /\ cache' = cache /\ config' = config)]_vars

\* one of the five reads of _read_calibration (calls 3 to 7) failed
CalibrationReadFailed ==
  op = "init" /\ \E i \in 3..7 : i <= Len(bus) /\ ~bus[i][4]

\* C8: when the chip id is right and a calibration read fails, the
\* constructor does not raise, the session is not detected and no heater
\* register was written.
C8_CalibrationFailureNotDetected ==
  CalibrationReadFailed => (pc = "idle" /\ ~detected /\ Len(bus) <= 7)

\* C9: the polling loop ends after a bounded number of status reads also
\* when the device never sets the new-data flag: every accessor that entered
\* the loop returns to its caller.
C9_AcquisitionTerminates == (pc = "poll") ~> (pc = "idle")

\* the kind, register and length of the k-th transport call of an
\* acquisition cycle as C11 orders them (the value of a write is 0 here)
CycleCall(k) ==
  IF k = 1 THEN <<"w", 117, 0>>
  ELSE IF k = 2 THEN <<"w", 116, 0>>
  ELSE IF k = 3 THEN <<"w", 114, 0>>
  ELSE IF k = 4 THEN <<"w", 113, 0>>
  ELSE IF k = 5 THEN <<"r", 116, 1>>
  ELSE IF k = 6 THEN <<"w", 116, 0>>
  ELSE <<"r", 29, 15>>

\* the log b has the calls of a cycle in that order, as far as it goes, and
\* its write-back is the byte read with bits 1-0 set to 01
InCycleOrder(b) ==
  /\ \A k \in 1..Len(b) :
       /\ b[k][1] = CycleCall(k)[1]
       /\ b[k][2] = CycleCall(k)[2]
       /\ b[k][1] = "r" => b[k][3] = CycleCall(k)[3]
  /\ Len(b) >= 6 =>
       /\ b[5][4]
       /\ b[6][3] % 4 = 1
       /\ b[6][3] \div 4 = b[5][5] \div 4

\* the last call of log b is a status read that succeeded with bit 0x80 set
EndsWithNewData(b) ==
  /\ Len(b) >= 7
  /\ b[Len(b)] = <<"r", 29, 15, TRUE, 128>>

\* C11: the transport calls of an acquisition cycle on a detected session
\* come in this order: write filter register, write temperature+pressure
\* oversample register, write humidity oversample register, write gas
\* register, read the measurement-control register, write it back with the
\* mode bits 01 and the other bits as read, then status reads of 15 bytes
\* (at least one when the accessor returns a value); the raw sample, t_fine
\* and the completion timestamp are assigned only in the step that read a
\* status block with the new-data bit set, and no status read before it had
\* the bit set.
C11_AcquisitionOrder ==
  [][(detected' /\ op' \in Accessors /\ pc' \in {"idle", "poll"}) =>
       /\ InCycleOrder(bus')
       /\ pc' = "poll" => (Len(bus') >= 6 /\ ~EndsWithNewData(bus'))
       /\ ret'[1] = "value" => (pc' = "idle" /\ EndsWithNewData(bus'))
       /\ (pc # "new" /\ <<adc', t_fine', last_reading'>>
                           # <<adc, t_fine, last_reading>>) =>
            /\ pc = "poll" /\ ret'[1] = "value"
            /\ EndsWithNewData(bus')
            /\ \A k \in 7..(Len(bus') - 1) : bus'[k][5] = 0
    ]_vars

\* a cycle that completed after a status read without new data, on a device
\* that answered the control-register read with both mode bits set
C11_Witness ==
  /\ op \in Accessors /\ detected /\ pc = "idle" /\ ret[1] = "value"
  /\ Len(bus) = 8 /\ bus[5][5] = 143 /\ bus[6][3] = 141
  /\ bus[7][5] = 0 /\ bus[8][5] = 128

====
